---- MODULE Spec2Model ----
(***************************************************************************)
(* Model of lib/query-interface.js (class QueryInterface): the transaction *)
(* control methods (setAutocommit .. rollbackTransaction) and the          *)
(* multi-statement drop operations, over an executor (sequelize.query)     *)
(* that answers every statement later, with success or failure.            *)
(***************************************************************************)
EXTENDS Integers, Sequences, FiniteSets, TLC

VARIABLES
  finished,   \* Transaction#finished of every handle
  name,       \* Transaction#name of every handle
  sent,       \* the statements handed to sequelize.query (and the calls made to
              \* the model layer), in order, with their outcome
  call,       \* the transaction-control call made last, and its promise
  pc,         \* Transaction driver: lifecycle position of every handle
  dialect,    \* this.sequelize.options.dialect
  db,         \* what the database and the model manager hold
  op          \* the drop operation under way: where it is, what it awaits

vars == <<finished, name, sent, call, pc, dialect, db, op>>
txvars == <<finished, name, call, pc>>

----------------------------------------------------------------------------
(* Bounds *)

\* Spec: no further call is made once this many statements were sent
MaxSent == 2

\* the tables showAllTables can report
MaxTables == 2

\* the foreign-key constraints getForeignKeysQuery can report for a table
MaxFks == 1

\* the ENUM attributes a model can have
MaxEnums == 2

\* the schemas showAllSchemas, and the enum types pgListEnums, can report
MaxListed == 2

\* the associations a model can declare
MaxAssocs == 2

\* the records an association getter can load
MaxInstances == 2

\* the unique keys, and the indexes, a model can declare
MaxKeys == 1

MaxIndexes == 1

\* the columns a description can list
MaxColumns == 2

----------------------------------------------------------------------------
(* Transaction handles *)

\* the value of an absent handle, parent or name (undefined)
NoTx == <<0, 0>>

\* <<r, 0>> is root transaction r, <<r, k>> its k-th savepoint
Handles == {<<1, 0>>, <<1, 1>>, <<1, 2>>, <<2, 0>>}

\* transaction.parent: undefined for a root, the root for a savepoint
parent(t) == IF t[2] = 0 THEN NoTx ELSE <<t[1], 0>>

IsSavepoint(t) == parent(t) # NoTx

\* the name a handle is constructed with: undefined for a root
InitialName(t) == IF IsSavepoint(t) THEN t ELSE NoTx

TargetOf_self(t) == t

\* transaction.parent || transaction
TargetOf(t) == IF parent(t) # NoTx THEN parent(t) ELSE t

\* value arguments of setAutocommit and setIsolationLevel
AutocommitValues == {"true", "false"}
IsolationValues == {"undefined", "READ COMMITTED", "SERIALIZABLE"}

\* !value
Falsy(value) == value = "undefined"

----------------------------------------------------------------------------
(* The executor: this.sequelize.query(sql, options) *)

\* hands one statement to the executor and returns the log; the statement is
\* the text generator gen made for handle tx, options.transaction is target
Query(gen, tx, target) ==
  Append(sent, [gen |-> gen, tx |-> tx, target |-> target, status |-> "pending"])

NoCall == [op |-> "none", tx |-> NoTx, value |-> "undefined",
           before |-> "undefined", beforeTarget |-> "undefined",
           base |-> 0, result |-> "resolved"]

\* the record of a call: what finished was when it was made (of the handle and
\* of parent || handle), how long the log was, and the state of the promise it
\* returned ("threw": it returned none)
Called(method, t, value, result) ==
  [op |-> method, tx |-> t, value |-> value,
   before |-> IF t = NoTx THEN "undefined" ELSE finished[t],
   beforeTarget |-> IF t = NoTx THEN "undefined" ELSE finished[TargetOf(t)],
   base |-> Len(sent), result |-> result]

\* !transaction || !(transaction instanceof Transaction)
NotATransaction(t) == t = NoTx

Throws(method, t, value) ==
  /\ call' = Called(method, t, value, "threw")
  /\ UNCHANGED <<finished, name, sent>>

\* return Promise.resolve()
ResolvesAtOnce(method, t, value) ==
  /\ call' = Called(method, t, value, "resolved")
  /\ UNCHANGED <<finished, name, sent>>

----------------------------------------------------------------------------
(* Transaction control *)

\* sql: whether QueryGenerator.setAutocommitQuery returned a statement
setAutocommit(t, value, sql) ==
  IF NotATransaction(t) THEN Throws("setAutocommit", t, value)
  ELSE IF parent(t) # NoTx THEN ResolvesAtOnce("setAutocommit", t, value)
  ELSE IF ~sql THEN ResolvesAtOnce("setAutocommit", t, value)
  ELSE /\ sent' = Query("setAutocommitQuery", t, TargetOf(t))
       /\ call' = Called("setAutocommit", t, value, "pending")
       /\ UNCHANGED <<finished, name>>

setIsolationLevel_noParentCheck(t, value, sql) ==
  IF NotATransaction(t) THEN Throws("setIsolationLevel", t, value)
  ELSE IF Falsy(value) THEN ResolvesAtOnce("setIsolationLevel", t, value)
  ELSE IF ~sql THEN ResolvesAtOnce("setIsolationLevel", t, value)
  ELSE /\ sent' = Query("setIsolationLevelQuery", t, TargetOf(t))
       /\ call' = Called("setIsolationLevel", t, value, "pending")
       /\ UNCHANGED <<finished, name>>

\* sql: whether QueryGenerator.setIsolationLevelQuery returned a statement
setIsolationLevel(t, value, sql) ==
  IF NotATransaction(t) THEN Throws("setIsolationLevel", t, value)
  ELSE IF parent(t) # NoTx \/ Falsy(value)
       THEN ResolvesAtOnce("setIsolationLevel", t, value)
  ELSE IF ~sql THEN ResolvesAtOnce("setIsolationLevel", t, value)
  ELSE /\ sent' = Query("setIsolationLevelQuery", t, TargetOf(t))
       /\ call' = Called("setIsolationLevel", t, value, "pending")
       /\ UNCHANGED <<finished, name>>

\* options.transaction.name = transaction.parent ? transaction.name : undefined
RenameTarget(t) ==
  [name EXCEPT ![TargetOf(t)] = IF parent(t) # NoTx THEN name[t] ELSE NoTx]

startTransaction_detached(t) ==
  IF NotATransaction(t) THEN Throws("startTransaction", t, "undefined")
  ELSE /\ name' = RenameTarget(t)
       /\ sent' = Query("startTransactionQuery", t, TargetOf(t))
       /\ call' = Called("startTransaction", t, "undefined", "resolved")
       /\ UNCHANGED finished

startTransaction(t) ==
  IF NotATransaction(t) THEN Throws("startTransaction", t, "undefined")
  ELSE /\ name' = RenameTarget(t)
       /\ sent' = Query("startTransactionQuery", t, TargetOf(t))
       /\ call' = Called("startTransaction", t, "undefined", "pending")
       /\ UNCHANGED finished

\* sql: whether QueryGenerator.deferConstraintsQuery returned a statement.
\* There is no argument check: transaction.parent of undefined is a TypeError
deferConstraints(t, sql) ==
  IF t = NoTx THEN Throws("deferConstraints", t, "undefined")
  ELSE IF sql
  THEN /\ sent' = Query("deferConstraintsQuery", t, TargetOf(t))
       /\ call' = Called("deferConstraints", t, "undefined", "pending")
       /\ UNCHANGED <<finished, name>>
  ELSE ResolvesAtOnce("deferConstraints", t, "undefined")

\* transaction.finished = 'commit', set after the statement is handed over
\* and before its promise settles
MarkCommit(t) == [finished EXCEPT ![t] = "commit"]

commitTransaction(t) ==
  IF NotATransaction(t) THEN Throws("commitTransaction", t, "undefined")
  ELSE IF parent(t) # NoTx
       THEN ResolvesAtOnce("commitTransaction", t, "undefined")
  ELSE /\ sent' = Query("commitTransactionQuery", t, TargetOf(t))
       /\ call' = Called("commitTransaction", t, "undefined", "pending")
       /\ finished' = MarkCommit(t)
       /\ UNCHANGED name

MarkRollback_target(t) == [finished EXCEPT ![TargetOf(t)] = "rollback"]

\* transaction.finished = 'rollback'
MarkRollback(t) == [finished EXCEPT ![t] = "rollback"]

RollbackSubject_target(t) == TargetOf(t)

\* the handle QueryGenerator.rollbackTransactionQuery is given
RollbackSubject(t) == t

rollbackTransaction(t) ==
  IF NotATransaction(t) THEN Throws("rollbackTransaction", t, "undefined")
  ELSE /\ name' = RenameTarget(t)
       /\ sent' = Query("rollbackTransactionQuery", RollbackSubject(t), TargetOf(t))
       /\ call' = Called("rollbackTransaction", t, "undefined", "pending")
       /\ finished' = MarkRollback(t)

\* the executor answers the statement of the pending call: its promise, which
\* is the promise the call returned, is fulfilled (ok) or rejected
Settle(ok) ==
  /\ call.result = "pending"
  /\ sent' = [sent EXCEPT ![Len(sent)].status = IF ok THEN "ok" ELSE "fail"]
  /\ call' = [call EXCEPT !.result = IF ok THEN "resolved" ELSE "rejected"]
  /\ UNCHANGED <<finished, name>>

----------------------------------------------------------------------------
(* The drop operations: dropTable, dropAllTables, dropAllSchemas,           *)
(* dropAllEnums. A statement of these carries the table it is about and,    *)
(* for a foreign key, enum attribute, schema or enum type, its number.      *)

Dialects == {"sqlite", "mysql", "mssql", "postgres"}

Tables == 1..MaxTables

\* what showAllTables can resolve to: the first n tables, in order
TableLists == {[i \in 1..n |-> i] : n \in 0..MaxTables}

\* shared: the tables whose ENUM attributes have a type that another table
\* or column uses as well
NoDb == [shared |-> {}]

Stmt(gen, table, item) ==
  [gen |-> gen, table |-> table, item |-> item, status |-> "pending"]

NoOp == [kind |-> "none", phase |-> "done", awaiting |-> {}, result |-> "resolved",
         tables |-> <<>>, skip |-> {}, fks |-> [t \in Tables |-> 0],
         k |-> 0, fkWasOn |-> FALSE,
         assocs |-> <<>>, cascades |-> <<>>, loaded |-> <<>>, j |-> 0,
         input |-> <<>>, wheres |-> <<>>, output |-> <<>>]

\* hands the statements to the executor one after the other without waiting,
\* and waits for all of them (Promise.all, Promise.map, or a single promise)
Await(log, o, phase, stmts) ==
  [sent |-> log \o stmts,
   op |-> [o EXCEPT !.phase = phase,
                    !.awaiting = (Len(log) + 1)..(Len(log) + Len(stmts))]]

Resolved(log, o) ==
  [sent |-> log,
   op |-> [o EXCEPT !.phase = "done", !.awaiting = {}, !.result = "resolved"]]

Rejected(log, o) ==
  [sent |-> log,
   op |-> [o EXCEPT !.phase = "done", !.awaiting = {}, !.result = "rejected"]]

\* .then(() => this.sequelize.query('PRAGMA foreign_keys = ON', options))
AfterTables(log, o) ==
  IF o.kind = "dropAllTables" /\ o.fkWasOn
  THEN Await(log, o, "pragmaOn", <<Stmt("PRAGMA foreign_keys = ON", 0, 0)>>)
  ELSE Resolved(log, o)

\* skip.indexOf(tableName.tableName || tableName) === -1
NotSkipped(o, k) == o.tables[k] \notin o.skip

\* the first table at or after position k that is not skipped, 0 if none
RECURSIVE NextTable(_, _)
NextTable(o, k) ==
  IF k > Len(o.tables) THEN 0
  ELSE IF NotSkipped(o, k) THEN k
  ELSE NextTable(o, k + 1)

\* Promise.each(tableNames, ...): dropTable for the next table not skipped,
\* the one after it only when this one is done
DropTablesFrom(log, o, k) ==
  LET n == NextTable(o, k) IN
  IF n = 0 THEN AfterTables(log, o)
  ELSE Await(log, [o EXCEPT !.k = n], "table",
             <<Stmt("dropTableQuery", o.tables[n], 0)>>)

\* the pgEnumDrop statements of dropTable: one for each of the e ENUM
\* attributes of the table's model, all pushed in one loop
EnumDrops(table, e) == [i \in 1..e |-> Stmt("pgEnumDrop", table, i)]

\* dropTable after its drop statement succeeded; e: the ENUM attributes of
\* the model registered for the table (0 when there is no model)
AfterDropTable(log, o, e) ==
  IF dialect = "postgres" /\ e > 0
  THEN Await(log, o, "enums", EnumDrops(o.tables[o.k], e))
  ELSE DropTablesFrom(log, o, o.k + 1)

\* getForeignKeysForTables: one getForeignKeysQuery per table (Promise.map)
FkQueries(tables) == [i \in 1..Len(tables) |-> Stmt("getForeignKeysQuery", tables[i], 0)]

\* tableNames.forEach(... foreignKeys[name].forEach(... promises.push(query)))
RECURSIVE FkDrops(_, _, _)
FkDrops(tables, fks, i) ==
  IF i > Len(tables) THEN <<>>
  ELSE [j \in 1..fks[tables[i]] |-> Stmt("dropForeignKeyQuery", tables[i], j)]
         \o FkDrops(tables, fks, i + 1)

AfterFkList_notAwaited(log, o) ==
  LET drops == FkDrops(o.tables, o.fks, 1) IN
  DropTablesFrom(log \o drops, o, 1)

\* Promise.all(promises).then(() => dropAllTables(tableNames))
AfterFkList(log, o) ==
  LET drops == FkDrops(o.tables, o.fks, 1) IN
  IF drops = <<>> THEN DropTablesFrom(log, o, 1)
  ELSE Await(log, o, "fkDrop", drops)

\* showAllTables(options).then(tableNames => ...)
AfterShowTables(log, o, tables) ==
  LET o1 == [o EXCEPT !.tables = tables] IN
  IF dialect = "sqlite"
  THEN Await(log, o1, "pragmaGet", <<Stmt("PRAGMA foreign_keys;", 0, 0)>>)
  ELSE IF Len(tables) = 0 THEN DropTablesFrom(log, o1, 1)
  ELSE Await(log, o1, "fkList", FkQueries(tables))

\* const foreignKeysAreEnabled = result.foreign_keys === 1
AfterPragmaGet(log, o, enabled) ==
  IF enabled = 1
  THEN Await(log, [o EXCEPT !.fkWasOn = TRUE], "pragmaOff",
             <<Stmt("PRAGMA foreign_keys = OFF", 0, 0)>>)
  ELSE DropTablesFrom(log, o, 1)

\* showAllSchemas(options).map(schemaName => this.dropSchema(schemaName, options))
AfterShowSchemas(log, o, n) ==
  IF n = 0 THEN Resolved(log, o)
  ELSE Await(log, o, "schemas", [i \in 1..n |-> Stmt("dropSchema", 0, i)])

\* this.pgListEnums(null, options).map(result => this.sequelize.query(pgEnumDrop ...))
AfterListEnums(log, o, n) ==
  IF n = 0 THEN Resolved(log, o)
  ELSE Await(log, o, "allEnums", [i \in 1..n |-> Stmt("pgEnumDrop", 0, i)])

----------------------------------------------------------------------------
(* delete(instance, ...) with cascades run by hooks. The calls of the       *)
(* association getters and of destroy are promises of collaborators; they   *)
(* are kept in the same history as the statements, with the position of the *)
(* association among instance.constructor.associations as their table and   *)
(* the number of the record as their item.                                   *)

OnDeleteValues == {"undefined", "CASCADE", "cascade", "RESTRICT"}

\* association.options of the associations a model can declare; useHooks is
\* TRUE for the value true only
Associations == [onDelete : OnDeleteValues, useHooks : BOOLEAN]

AssociationLists ==
  UNION {[1..n -> Associations] : n \in 0..MaxAssocs}

toLowerCase(str) ==
  CASE str = "CASCADE" -> "cascade"
    [] str = "RESTRICT" -> "restrict"
    [] OTHER -> str

\* association.options.onDelete &&
\* association.options.onDelete.toLowerCase() === 'cascade' &&
\* association.options.useHooks === true
IsCascade(association) ==
  /\ association.onDelete # "undefined"
  /\ toLowerCase(association.onDelete) = "cascade"
  /\ association.useHooks

\* cascades.push(association.accessors.get), in the order of Object.keys
Cascades(assocs) ==
  SelectSeq([i \in 1..Len(assocs) |-> i], LAMBDA i : IsCascade(assocs[i]))

\* what instance[cascade](options) can resolve to: nothing (a to-one
\* association without a record), one record, or an array of records
Instances ==
  {<<"none", 0>>, <<"single", 1>>} \cup {<<"array", n>> : n \in 0..MaxInstances}

\* .then(() => { options.instance = instance; return this.sequelize.query(sql, options); })
AfterCascades(log, o) ==
  Await(log, o, "deleteQuery", <<Stmt("deleteQuery", 0, 0)>>)

\* Promise.each(cascades, cascade => instance[cascade](options)...)
LoadFrom(log, o, c) ==
  IF c > Len(o.cascades) THEN AfterCascades(log, o)
  ELSE Await(log, [o EXCEPT !.k = c], "get",
             <<Stmt("accessors.get", o.cascades[c], 0)>>)

\* the records loaded for the association at hand
Loaded(o) == o.loaded[Len(o.loaded)]

\* Promise.each(instances, instance => instance.destroy(options))
DestroyFrom(log, o, j) ==
  IF j > Loaded(o)[2] THEN LoadFrom(log, o, o.k + 1)
  ELSE Await(log, [o EXCEPT !.j = j], "destroy",
             <<Stmt("destroy", o.cascades[o.k], j)>>)

AfterGet_destroyAtOnce(log, o, instances) ==
  LET o1 == [o EXCEPT !.loaded = Append(@, instances)] IN
  IF instances[2] = 0 THEN LoadFrom(log, o1, o.k + 1)
  ELSE Await(log, [o1 EXCEPT !.j = instances[2]], "destroy",
             [j \in 1..instances[2] |-> Stmt("destroy", o.cascades[o.k], j)])

\* .then(instances => { if (!instances) return Promise.resolve();
\*   if (!Array.isArray(instances)) instances = [instances]; ... })
AfterGet(log, o, instances) ==
  LET o1 == [o EXCEPT !.loaded = Append(@, instances)] IN
  IF instances[1] = "none" THEN LoadFrom(log, o1, o.k + 1)
  ELSE DestroyFrom(log, o1, 1)

----------------------------------------------------------------------------
(* upsert. A predicate (a where object) is the set of the pairs             *)
(* <<field, value>> it equates; insertValues is a function from the fields  *)
(* given to their values. A raw result and a resolved value are tuples of   *)
(* strings, the JavaScript values written out: a row is the tuple of its    *)
(* two columns, a scalar the tuple of itself.                               *)

Fields == {"a", "b"}

Values == {"1", "2"}

\* the field lists a unique key or an index can have
FieldLists == {<<"a">>, <<"b">>, <<"a", "b">>}

InsertValues == UNION {[S -> Values] : S \in SUBSET Fields}

\* the where a caller passes: none, or a predicate of its own
CallerWheres == {{}, {<<"a", "2">>}}

\* model.uniqueKeys: each value has fields, a list of field names
UniqueKeys ==
  UNION {[1..n -> [fields : FieldLists]] : n \in 0..MaxKeys}

\* model._indexes: the fields of an index are names (plain true) or objects
\* with an attribute property (plain false)
ModelIndexes ==
  UNION {[1..n -> [unique : BOOLEAN, plain : BOOLEAN, fields : FieldLists]] :
           n \in 0..MaxIndexes}

\* the fields of an index as the model holds them
IndexFields(value) ==
  [i \in 1..Len(value.fields) |->
     IF value.plain THEN [isPlainObject |-> FALSE, string |-> value.fields[i], attribute |-> ""]
     ELSE [isPlainObject |-> TRUE, string |-> "", attribute |-> value.fields[i]]]

\* _.map(value.fields, field => _.isPlainObject(field) ? field.attribute : field)
Sanitized(fields) ==
  [i \in 1..Len(fields) |->
     IF fields[i].isPlainObject THEN fields[i].attribute ELSE fields[i].string]

Range(seq) == {seq[i] : i \in 1..Len(seq)}

Indexes_nonUniqueToo(model) ==
  [i \in 1..Len(model.uniqueKeys) |-> model.uniqueKeys[i].fields]
    \o [i \in 1..Len(model.indexes) |-> Sanitized(IndexFields(model.indexes[i]))]

\* indexes: the fields of model.uniqueKeys, then those of the unique ones of
\* model._indexes
Indexes(model) ==
  LET unique == SelectSeq(model.indexes, LAMBDA value : value.unique) IN
  [i \in 1..Len(model.uniqueKeys) |-> model.uniqueKeys[i].fields]
    \o [i \in 1..Len(unique) |-> Sanitized(IndexFields(unique[i]))]

\* _.intersection(attributes, index).length === index.length
Covered(attributes, index) ==
  Cardinality(attributes \cap Range(index)) = Len(index)

\* for (const field of index) where[field] = insertValues[field]
WhereOf(index, insertValues) ==
  {<<field, insertValues[field]>> : field \in Range(index)}

\* Utils.isWhereEmpty(where)
isWhereEmpty(where) == where = {}

\* the wheres of { [Op.or]: wheres }
Wheres(insertValues, where, model) ==
  LET attributes == DOMAIN insertValues
      covered == SelectSeq(Indexes(model), LAMBDA index : Covered(attributes, index))
  IN (IF isWhereEmpty(where) THEN <<>> ELSE <<where>>)
       \o [i \in 1..Len(covered) |-> WhereOf(covered[i], insertValues)]

\* what the executor resolves an upsert statement to: on postgres a row
\* (created, primary_key), on mssql a row ($action, primary key), on mysql
\* and sqlite the number of rows affected, or nothing
RawResults(d) ==
  CASE d = "postgres" -> {<<"true", "1">>, <<"false", "1">>}
    [] d = "mssql" -> {<<"INSERT", "1">>, <<"UPDATE", "1">>}
    [] d = "mysql" -> {<<"1">>, <<"2">>}
    [] OTHER -> {<<"1">>, <<"2">>, <<"undefined">>}

StrictEquals(x, y) == IF x = y THEN "true" ELSE "false"

\* switch (this.sequelize.options.dialect) in the callback of upsert
UpsertResult(d, result) ==
  CASE d = "postgres" -> <<result[1], result[2]>>
    [] d = "mssql" -> <<StrictEquals(result[1], "INSERT"), result[2]>>
    [] d = "mysql" -> <<StrictEquals(result[1], "1"), "undefined">>
    [] OTHER -> <<result[1], "undefined">>

AfterUpsert(log, o, result) ==
  Resolved(log, [o EXCEPT !.output = UpsertResult(dialect, result)])

----------------------------------------------------------------------------
(* describeTable, createTable, addConstraint *)

AfterDescribe_emptyToo(log, o, data) ==
  Resolved(log, [o EXCEPT !.output = <<data>>])

\* data is the number of columns the executor described;
\* _.isEmpty(data) ? Promise.reject(...) : Promise.resolve(data)
AfterDescribe(log, o, data) ==
  IF data = 0 THEN Rejected(log, o)
  ELSE Resolved(log, [o EXCEPT !.output = <<data>>])

----------------------------------------------------------------------------
(* renameColumn. The description of a column, and the attribute built from  *)
(* it, are sets of pairs <<key, value>>, the values written out as strings. *)

ColumnTypes == {"INTEGER", "VARCHAR(255)"}

\* data[attrNameBefore]: what describeTable reports of a column
ColumnData ==
  [type : ColumnTypes, allowNull : {"true", "false"},
   defaultValue : {"null", "undefined", "0"}]

\* what the describe statement of renameColumn can resolve to: nothing, a
\* description without the column, or one with it
Descriptions ==
  {[columns |-> c, data |-> [type |-> "INTEGER", allowNull |-> "true", defaultValue |-> "null"]] :
     c \in {"none", "others"}}
    \cup {[columns |-> "attrNameBefore", data |-> d] : d \in ColumnData}

RenamedAttribute_nullDefaultKept(data) ==
  {<<"attribute", "attrNameAfter">>, <<"type", data.type>>,
   <<"allowNull", data.allowNull>>, <<"defaultValue", data.defaultValue>>}

\* _options[attrNameAfter], after
\* if (data.defaultValue === null && !data.allowNull) delete ...defaultValue
RenamedAttribute(data) ==
  LET attribute == {<<"attribute", "attrNameAfter">>, <<"type", data.type>>,
                    <<"allowNull", data.allowNull>>, <<"defaultValue", data.defaultValue>>}
  IN IF data.defaultValue = "null" /\ data.allowNull = "false"
     THEN attribute \ {<<"defaultValue", data.defaultValue>>}
     ELSE attribute

\* the definition SQLiteQueryInterface.renameColumn gives the column it
\* adds: that of the column described, without a null default on a column
\* that is not nullable
SQLiteRenamedAttribute(data) ==
  {<<"attribute", "attrNameAfter">>, <<"type", data.type>>, <<"allowNull", data.allowNull>>}
    \cup (IF data.defaultValue = "null" /\ data.allowNull = "false" THEN {}
          ELSE {<<"defaultValue", data.defaultValue>>})

\* the .then(data => ...) callback of renameColumn, after the checks of
\* describeTable: an empty description is rejected there, a description
\* without the column throws here
AfterDescribeForRename(log, o, described) ==
  IF described.columns = "none" THEN Rejected(log, o)
  ELSE IF described.columns = "others" THEN Rejected(log, o)
  ELSE LET o1 == [o EXCEPT !.input = described.data] IN
       IF dialect = "sqlite"
       THEN Await(log, [o1 EXCEPT !.output = <<SQLiteRenamedAttribute(described.data)>>],
                  "renameColumn",
                  <<Stmt("SQLiteQueryInterface.renameColumn", o.tables[1], 0)>>)
       ELSE Await(log, [o1 EXCEPT !.output = <<RenamedAttribute(described.data)>>],
                  "renameColumn",
                  <<Stmt("renameColumnQuery", o.tables[1], 0)>>)

----------------------------------------------------------------------------

\* options.type of addConstraint
ConstraintTypes == {"undefined", "unique", "check"}

\* the second argument of addConstraint when it is the array of the fields
FieldsArray == [isArray |-> TRUE, type |-> "undefined"]

\* an options object; it is the second argument when the fields are folded
\* into the options (the third argument is then rawTablename, which has no
\* type that is read)
ConstraintOptions == {[isArray |-> FALSE, type |-> t] : t \in ConstraintTypes}

\* throw new Error('Constraint type must be specified through options.type')
Threw(log, o) ==
  [sent |-> log,
   op |-> [o EXCEPT !.phase = "done", !.awaiting = {}, !.result = "threw"]]

\* promise.then(() => this.sequelize.query(sql, options))
AfterEnsureEnums(log, o) ==
  Await(log, o, "createTableQuery", <<Stmt("createTableQuery", o.tables[1], 0)>>)

----------------------------------------------------------------------------

\* what the answer to a statement can carry, by the statement awaited
Answers(o) ==
  CASE o.phase = "showTables" -> TableLists
    [] o.phase = "fkList" -> 0..MaxFks
    [] o.phase = "pragmaGet" -> {0, 1}
    [] o.phase = "table" -> IF dialect = "postgres" THEN 0..MaxEnums ELSE {0}
    [] o.phase \in {"showSchemas", "listEnums"} -> 0..MaxListed
    [] o.phase = "get" -> Instances
    [] o.phase = "upsertQuery" -> RawResults(dialect)
    [] o.phase = "describeTableQuery" -> 0..MaxColumns
    [] o.phase = "describeForRename" -> Descriptions
    [] OTHER -> {0}

\* all the promises awaited are fulfilled: the operation goes on; r is what
\* the last answer carried
Continue(log, o, r) ==
  CASE o.phase = "showTables" -> AfterShowTables(log, o, r)
    [] o.phase = "fkList" -> AfterFkList(log, o)
    [] o.phase = "fkDrop" -> DropTablesFrom(log, o, 1)
    [] o.phase = "pragmaGet" -> AfterPragmaGet(log, o, r)
    [] o.phase = "pragmaOff" -> DropTablesFrom(log, o, 1)
    [] o.phase = "table" -> AfterDropTable(log, o, r)
    [] o.phase = "enums" -> DropTablesFrom(log, o, o.k + 1)
    [] o.phase = "showSchemas" -> AfterShowSchemas(log, o, r)
    [] o.phase = "listEnums" -> AfterListEnums(log, o, r)
    [] o.phase = "get" -> AfterGet(log, o, r)
    [] o.phase = "destroy" -> DestroyFrom(log, o, o.j + 1)
    [] o.phase = "upsertQuery" -> AfterUpsert(log, o, r)
    [] o.phase = "describeTableQuery" -> AfterDescribe(log, o, r)
    [] o.phase = "ensureEnums" -> AfterEnsureEnums(log, o)
    [] o.phase = "describeForRename" -> AfterDescribeForRename(log, o, r)
    [] OTHER -> Resolved(log, o)

Failed_deleteAnyway(log, o) ==
  IF o.kind = "delete" /\ o.phase # "deleteQuery" THEN AfterCascades(log, o)
  ELSE Rejected(log, o)

\* one of the promises awaited is rejected: no callback of the chains has a
\* catch, so the promise of the operation is rejected with it
Failed(log, o) == Rejected(log, o)

\* the executor answers statement i. A rejection rejects the promise the
\* operation awaits, and nothing more of the operation runs; a fulfilment
\* that is the last one awaited lets the operation go on. The statements
\* still pending are answered all the same.
Answer(i, ok, r) ==
  LET log == [sent EXCEPT ![i].status = IF ok THEN "ok" ELSE "fail"]
      awaited == op.result = "pending" /\ i \in op.awaiting
      o == IF awaited /\ op.phase = "fkList"
           THEN [op EXCEPT !.fks[sent[i].table] = r, !.awaiting = @ \ {i}]
           ELSE [op EXCEPT !.awaiting = @ \ {i}]
      next == IF ~awaited THEN [sent |-> log, op |-> op]
              ELSE IF ~ok THEN Failed(log, op)
              ELSE IF o.awaiting # {} THEN [sent |-> log, op |-> o]
              ELSE Continue(log, o, r)
  IN /\ sent[i].status = "pending"
     /\ sent' = next.sent
     /\ op' = next.op
     /\ UNCHANGED <<txvars, dialect, db>>

Started(kind, tables, skip) ==
  [NoOp EXCEPT !.kind = kind, !.result = "pending", !.tables = tables, !.skip = skip]

dropTable(table) ==
  LET next == Await(sent, Started("dropTable", <<table>>, {}) , "table",
                    <<Stmt("dropTableQuery", table, 0)>>)
  IN /\ sent' = next.sent
     /\ op' = [next.op EXCEPT !.k = 1]
     /\ UNCHANGED <<txvars, dialect, db>>

dropAllTables(skip) ==
  LET next == Await(sent, Started("dropAllTables", <<>>, skip), "showTables",
                    <<Stmt("showTablesQuery", 0, 0)>>)
  IN /\ sent' = next.sent
     /\ op' = next.op
     /\ UNCHANGED <<txvars, dialect, db>>

\* schemas: this.QueryGenerator._dialect.supports.schemas; without them the
\* operation is sequelize.drop, which is not part of this class
dropAllSchemas(schemas) ==
  LET o == Started("dropAllSchemas", <<>>, {})
      next == IF schemas
              THEN Await(sent, o, "showSchemas", <<Stmt("showSchemasQuery", 0, 0)>>)
              ELSE [sent |-> sent, op |-> [o EXCEPT !.phase = "sequelize.drop"]]
  IN /\ sent' = next.sent
     /\ op' = next.op
     /\ UNCHANGED <<txvars, dialect, db>>

dropAllEnums ==
  LET o == Started("dropAllEnums", <<>>, {})
      next == IF dialect # "postgres" THEN Resolved(sent, o)
              ELSE Await(sent, o, "listEnums", <<Stmt("pgListEnums", 0, 0)>>)
  IN /\ sent' = next.sent
     /\ op' = next.op
     /\ UNCHANGED <<txvars, dialect, db>>

\* delete(instance, tableName, identifier, options), for an instance whose
\* model declares these associations
delete(assocs) ==
  LET o == [Started("delete", <<>>, {}) EXCEPT !.assocs = assocs,
                                               !.cascades = Cascades(assocs)]
      next == LoadFrom(sent, o, 1)
  IN /\ sent' = next.sent
     /\ op' = next.op
     /\ UNCHANGED <<txvars, dialect, db>>

\* upsert(tableName, insertValues, updateValues, where, model, options)
upsert(insertValues, where, model) ==
  LET o == [Started("upsert", <<>>, {}) EXCEPT
              !.input = [insertValues |-> insertValues, where |-> where, model |-> model],
              !.wheres = Wheres(insertValues, where, model)]
      next == Await(sent, o, "upsertQuery", <<Stmt("upsertQuery", 0, 0)>>)
  IN /\ sent' = next.sent
     /\ op' = next.op
     /\ UNCHANGED <<txvars, dialect, db>>

describeTable(table) ==
  LET next == Await(sent, Started("describeTable", <<table>>, {}), "describeTableQuery",
                    <<Stmt("describeTableQuery", table, 0)>>)
  IN /\ sent' = next.sent
     /\ op' = next.op
     /\ UNCHANGED <<txvars, dialect, db>>

createTable_notAwaited(table) ==
  LET o == Started("createTable", <<table>>, {})
      next == IF dialect = "postgres"
              THEN Await(sent, o, "createTableQuery",
                         <<Stmt("ensureEnums", table, 0), Stmt("createTableQuery", table, 0)>>)
              ELSE AfterEnsureEnums(sent, o)
  IN /\ sent' = next.sent
     /\ op' = next.op
     /\ UNCHANGED <<txvars, dialect, db>>

\* createTable(tableName, attributes, options, model); the call of
\* PostgresQueryInterface.ensureEnums is a promise kept in the history
createTable(table) ==
  LET o == Started("createTable", <<table>>, {})
      next == IF dialect = "postgres"
              THEN Await(sent, o, "ensureEnums", <<Stmt("ensureEnums", table, 0)>>)
              ELSE AfterEnsureEnums(sent, o)
  IN /\ sent' = next.sent
     /\ op' = next.op
     /\ UNCHANGED <<txvars, dialect, db>>

addConstraint_checkBeforeFold(attributes, options) ==
  LET o == [Started("addConstraint", <<>>, {}) EXCEPT
              !.input = [attributes |-> attributes, options |-> options]]
      next == IF options.type = "undefined" THEN Threw(sent, o)
              ELSE Await(sent, o, "addConstraintQuery", <<Stmt("addConstraintQuery", 0, 0)>>)
  IN /\ sent' = next.sent
     /\ op' = next.op
     /\ UNCHANGED <<txvars, dialect, db>>

\* addConstraint(tableName, attributes, options, rawTablename); on sqlite
\* the call of SQLiteQueryInterface.addConstraint is a promise kept in the
\* history
addConstraint(attributes, options) ==
  LET folded == IF ~attributes.isArray THEN attributes ELSE options
      o == [Started("addConstraint", <<>>, {}) EXCEPT
              !.input = [attributes |-> attributes, options |-> options]]
      delegate == IF dialect = "sqlite" THEN "SQLiteQueryInterface.addConstraint"
                  ELSE "addConstraintQuery"
      next == IF folded.type = "undefined" THEN Threw(sent, o)
              ELSE Await(sent, o, delegate, <<Stmt(delegate, 0, 0)>>)
  IN /\ sent' = next.sent
     /\ op' = next.op
     /\ UNCHANGED <<txvars, dialect, db>>

\* renameColumn(tableName, attrNameBefore, attrNameAfter, options)
renameColumn(table) ==
  LET next == Await(sent, Started("renameColumn", <<table>>, {}), "describeForRename",
                    <<Stmt("describeTableQuery", table, 0)>>)
  IN /\ sent' = next.sent
     /\ op' = next.op
     /\ UNCHANGED <<txvars, dialect, db>>

\* the methods that send the statement the generator of the same name
\* returns, if it returns one
GeneratedOps ==
  {"createTrigger", "dropTrigger", "renameTrigger",
   "createFunction", "dropFunction", "renameFunction"}

\* what an operation keeps of its generator: whether it returned a
\* statement, and how long the history was
Generated(sql) == [sql |-> sql, base |-> Len(sent)]

generated_sentAnyway(method, sql) ==
  LET o == [Started(method, <<>>, {}) EXCEPT !.input = Generated(sql)]
      next == Await(sent, o, method, <<Stmt(method, 0, 0)>>)
  IN /\ sent' = next.sent
     /\ op' = next.op

\* createTrigger, dropTrigger, renameTrigger, createFunction, dropFunction,
\* renameFunction: if (sql) return this.sequelize.query(sql, options);
\* else return Promise.resolve();
generated(method, sql) ==
  LET o == [Started(method, <<>>, {}) EXCEPT !.input = Generated(sql)]
      next == IF sql THEN Await(sent, o, method, <<Stmt(method, 0, 0)>>)
              ELSE Resolved(sent, o)
  IN /\ sent' = next.sent
     /\ op' = next.op

\* the promise of sequelize.drop settles
SequelizeDropSettles(ok) ==
  /\ op.phase = "sequelize.drop"
  /\ op' = IF ok THEN Resolved(sent, op).op ELSE Rejected(sent, op).op
  /\ UNCHANGED <<txvars, dialect, db, sent>>

----------------------------------------------------------------------------
(* Spec: any caller of the transaction-control methods. The caller keeps    *)
(* the precondition of serializing the calls: it awaits a call's promise    *)
(* before the next call.                                                    *)

Init ==
  /\ finished = [t \in Handles |-> "undefined"]
  /\ name = [t \in Handles |-> InitialName(t)]
  /\ sent = <<>>
  /\ call = NoCall
  /\ pc = [t \in Handles |-> "idle"]
  /\ dialect = "postgres"
  /\ db = NoDb
  /\ op = NoOp

Args == Handles \cup {NoTx}

MayCall == call.result # "pending" /\ Len(sent) < MaxSent

CallSetAutocommit ==
  /\ MayCall
  /\ \E t \in Args, v \in AutocommitValues, sql \in BOOLEAN : setAutocommit(t, v, sql)
  /\ UNCHANGED <<pc, dialect, db, op>>

CallSetIsolationLevel ==
  /\ MayCall
  /\ \E t \in Args, v \in IsolationValues, sql \in BOOLEAN : setIsolationLevel(t, v, sql)
  /\ UNCHANGED <<pc, dialect, db, op>>

CallStartTransaction ==
  /\ MayCall
  /\ \E t \in Args : startTransaction(t)
  /\ UNCHANGED <<pc, dialect, db, op>>

CallDeferConstraints ==
  /\ MayCall
  /\ \E t \in Args, sql \in BOOLEAN : deferConstraints(t, sql)
  /\ UNCHANGED <<pc, dialect, db, op>>

CallCommitTransaction ==
  /\ MayCall
  /\ \E t \in Args : commitTransaction(t)
  /\ UNCHANGED <<pc, dialect, db, op>>

CallRollbackTransaction ==
  /\ MayCall
  /\ \E t \in Args : rollbackTransaction(t)
  /\ UNCHANGED <<pc, dialect, db, op>>

ExecutorSettles ==
  /\ \E ok \in BOOLEAN : Settle(ok)
  /\ UNCHANGED <<pc, dialect, db, op>>

Next ==
  \/ CallSetAutocommit
  \/ CallSetIsolationLevel
  \/ CallStartTransaction
  \/ CallDeferConstraints
  \/ CallCommitTransaction
  \/ CallRollbackTransaction
  \/ ExecutorSettles

Spec == Init /\ [][Next]_vars

----------------------------------------------------------------------------
(* SpecTx: the Transaction object driving the methods above, one lifecycle  *)
(* per handle: set autocommit, set isolation level, begin (or savepoint),   *)
(* optionally defer constraints, then commit or rollback. Every step awaits *)
(* the promise of the one before, and a rejected promise ends the           *)
(* lifecycle. A savepoint lives inside its root's active phase.             *)

\* the handles SpecTx drives
TxHandles == {<<1, 0>>, <<1, 1>>, <<1, 2>>}

\* the savepoint's root has begun and has not ended
RootIsOpen(t) == IsSavepoint(t) => pc[parent(t)] = "active"

MayStep(t) == call.result # "pending" /\ RootIsOpen(t)

TxSetAutocommit(t) ==
  /\ pc[t] = "idle"
  /\ MayStep(t)
  /\ \E v \in AutocommitValues, sql \in BOOLEAN : setAutocommit(t, v, sql)
  /\ pc' = [pc EXCEPT ![t] = "autocommit"]
  /\ UNCHANGED <<dialect, db, op>>

TxSetIsolationLevel(t) ==
  /\ pc[t] = "autocommit"
  /\ MayStep(t)
  /\ \E v \in IsolationValues, sql \in BOOLEAN : setIsolationLevel(t, v, sql)
  /\ pc' = [pc EXCEPT ![t] = "isolation"]
  /\ UNCHANGED <<dialect, db, op>>

TxBegin(t) ==
  /\ pc[t] = "isolation"
  /\ MayStep(t)
  /\ startTransaction(t)
  /\ pc' = [pc EXCEPT ![t] = "begun"]
  /\ UNCHANGED <<dialect, db, op>>

\* deferring constraints is optional: without the option the step is left out
TxDeferConstraints(t) ==
  /\ pc[t] = "begun"
  /\ MayStep(t)
  /\ \/ \E sql \in BOOLEAN : deferConstraints(t, sql)
     \/ UNCHANGED <<finished, name, sent, call>>
  /\ pc' = [pc EXCEPT ![t] = "active"]
  /\ UNCHANGED <<dialect, db, op>>

\* a root ends after its savepoints
SavepointsEnded(t) ==
  \A s \in TxHandles : parent(s) = t => pc[s] \in {"idle", "commit", "rollback", "failed"}

TxCommit(t) ==
  /\ pc[t] = "active"
  /\ MayStep(t)
  /\ SavepointsEnded(t)
  /\ commitTransaction(t)
  /\ pc' = [pc EXCEPT ![t] = "commit"]
  /\ UNCHANGED <<dialect, db, op>>

TxRollback(t) ==
  /\ pc[t] = "active"
  /\ MayStep(t)
  /\ SavepointsEnded(t)
  /\ rollbackTransaction(t)
  /\ pc' = [pc EXCEPT ![t] = "rollback"]
  /\ UNCHANGED <<dialect, db, op>>

\* the executor answers; a rejection ends the lifecycle of the calling handle
TxSettles ==
  \E ok \in BOOLEAN :
    /\ Settle(ok)
    /\ pc' = IF ok THEN pc ELSE [pc EXCEPT ![call.tx] = "failed"]
    /\ UNCHANGED <<dialect, db, op>>

NextTx ==
  \/ \E t \in TxHandles : TxSetAutocommit(t)
  \/ \E t \in TxHandles : TxSetIsolationLevel(t)
  \/ \E t \in TxHandles : TxBegin(t)
  \/ \E t \in TxHandles : TxDeferConstraints(t)
  \/ \E t \in TxHandles : TxCommit(t)
  \/ \E t \in TxHandles : TxRollback(t)
  \/ TxSettles

SpecTx == Init /\ [][NextTx]_vars

----------------------------------------------------------------------------
(* SpecDrop: one drop operation on a database of any of the dialects, the   *)
(* executor answering the statements in flight in any order.                *)

InitDrop ==
  /\ finished = [t \in Handles |-> "undefined"]
  /\ name = [t \in Handles |-> InitialName(t)]
  /\ sent = <<>>
  /\ call = NoCall
  /\ pc = [t \in Handles |-> "idle"]
  /\ dialect \in Dialects
  /\ db \in {[NoDb EXCEPT !.shared = s] :
               s \in IF dialect = "postgres" THEN SUBSET Tables ELSE {{}}}
  /\ op = NoOp

CallDropTable == op.kind = "none" /\ \E t \in Tables : dropTable(t)

CallDropAllTables == op.kind = "none" /\ \E skip \in SUBSET Tables : dropAllTables(skip)

CallDropAllSchemas == op.kind = "none" /\ \E schemas \in BOOLEAN : dropAllSchemas(schemas)

CallDropAllEnums == op.kind = "none" /\ dropAllEnums

ExecutorAnswers ==
  \E i \in 1..Len(sent), ok \in BOOLEAN :
    \E r \in (IF op.result = "pending" /\ i \in op.awaiting THEN Answers(op) ELSE {0}) :
      Answer(i, ok, r)

DropSettles == \E ok \in BOOLEAN : SequelizeDropSettles(ok)

NextDrop ==
  \/ CallDropTable
  \/ CallDropAllTables
  \/ CallDropAllSchemas
  \/ CallDropAllEnums
  \/ ExecutorAnswers
  \/ DropSettles

SpecDrop == InitDrop /\ [][NextDrop]_vars

----------------------------------------------------------------------------
(* SpecDelete: one delete of a record; the getters, the destroys and the   *)
(* executor answer in any way.                                              *)

InitDelete ==
  /\ finished = [t \in Handles |-> "undefined"]
  /\ name = [t \in Handles |-> InitialName(t)]
  /\ sent = <<>>
  /\ call = NoCall
  /\ pc = [t \in Handles |-> "idle"]
  /\ dialect = "mysql"
  /\ db = NoDb
  /\ op = NoOp

CallDelete == op.kind = "none" /\ \E assocs \in AssociationLists : delete(assocs)

\* a getter, a destroy or the delete statement settles
DeleteStepSettles ==
  \E i \in 1..Len(sent), ok \in BOOLEAN :
    \E r \in (IF op.result = "pending" /\ i \in op.awaiting THEN Answers(op) ELSE {0}) :
      Answer(i, ok, r)

NextDelete ==
  \/ CallDelete
  \/ DeleteStepSettles

SpecDelete == InitDelete /\ [][NextDelete]_vars

----------------------------------------------------------------------------
(* SpecOps: one upsert, describeTable, createTable or addConstraint on a   *)
(* database of any of the dialects.                                         *)

InitOps ==
  /\ finished = [t \in Handles |-> "undefined"]
  /\ name = [t \in Handles |-> InitialName(t)]
  /\ sent = <<>>
  /\ call = NoCall
  /\ pc = [t \in Handles |-> "idle"]
  /\ dialect \in Dialects
  /\ db = NoDb
  /\ op = NoOp

CallUpsert ==
  /\ op.kind = "none"
  /\ \E insertValues \in InsertValues, where \in CallerWheres,
        uniqueKeys \in UniqueKeys, indexes \in ModelIndexes :
       upsert(insertValues, where, [uniqueKeys |-> uniqueKeys, indexes |-> indexes])

CallDescribeTable == op.kind = "none" /\ \E t \in Tables : describeTable(t)

CallCreateTable == op.kind = "none" /\ \E t \in Tables : createTable(t)

CallRenameColumn == op.kind = "none" /\ \E t \in Tables : renameColumn(t)

CallAddConstraint ==
  /\ op.kind = "none"
  /\ \E attributes \in {FieldsArray} \cup ConstraintOptions, options \in ConstraintOptions :
       addConstraint(attributes, options)

\* the executor, ensureEnums or the sqlite addConstraint settles
OpsStepSettles ==
  \E i \in 1..Len(sent), ok \in BOOLEAN :
    \E r \in (IF op.result = "pending" /\ i \in op.awaiting THEN Answers(op) ELSE {0}) :
      Answer(i, ok, r)

NextOps ==
  \/ CallUpsert
  \/ CallDescribeTable
  \/ CallCreateTable
  \/ CallAddConstraint
  \/ CallRenameColumn
  \/ OpsStepSettles

SpecOps == InitOps /\ [][NextOps]_vars

----------------------------------------------------------------------------
(* SpecSql: calls, one after the other, of the methods whose generator may *)
(* return no statement; what the generator returned is kept in op.          *)

MaySql == call.result # "pending" /\ op.result # "pending" /\ Len(sent) < MaxSent

\* no handle, a root, a savepoint of it
SqlArgs == {NoTx, <<1, 0>>, <<1, 1>>}

\* the generator of a transaction-control method returned a statement, or none
OfGenerator(method, sql) == [NoOp EXCEPT !.kind = method, !.input = Generated(sql)]

SqlSetAutocommit ==
  /\ MaySql
  /\ \E t \in SqlArgs, v \in AutocommitValues, sql \in BOOLEAN :
       setAutocommit(t, v, sql) /\ op' = OfGenerator("setAutocommit", sql)
  /\ UNCHANGED <<pc, dialect, db>>

SqlSetIsolationLevel ==
  /\ MaySql
  /\ \E t \in SqlArgs, v \in IsolationValues, sql \in BOOLEAN :
       setIsolationLevel(t, v, sql) /\ op' = OfGenerator("setIsolationLevel", sql)
  /\ UNCHANGED <<pc, dialect, db>>

SqlDeferConstraints ==
  /\ MaySql
  /\ \E t \in SqlArgs, sql \in BOOLEAN :
       deferConstraints(t, sql) /\ op' = OfGenerator("deferConstraints", sql)
  /\ UNCHANGED <<pc, dialect, db>>

SqlGenerated ==
  /\ MaySql
  /\ \E method \in GeneratedOps, sql \in BOOLEAN : generated(method, sql)
  /\ UNCHANGED <<txvars, dialect, db>>

\* the executor answers the statement of the pending call
SqlCallSettles ==
  /\ \E ok \in BOOLEAN : Settle(ok)
  /\ UNCHANGED <<pc, dialect, db, op>>

\* the executor answers the statement of the pending operation
SqlOpSettles ==
  /\ op.result = "pending"
  /\ \E i \in op.awaiting, ok \in BOOLEAN : Answer(i, ok, 0)

NextSql ==
  \/ SqlSetAutocommit
  \/ SqlSetIsolationLevel
  \/ SqlDeferConstraints
  \/ SqlGenerated
  \/ SqlCallSettles
  \/ SqlOpSettles

SpecSql == Init /\ [][NextSql]_vars

----------------------------------------------------------------------------
(* Claims on the transaction-control methods, under Spec *)

LastSent == sent[Len(sent)]

\* what the last call handed to the executor
SentByCall == Len(sent) - call.base

EndsTransaction(method) == method \in {"commitTransaction", "rollbackTransaction"}

\* C1: when the commit or rollback statement fails, the handle's finished
\* marker is what it was before the call.
C1_FailureLeavesStateUnmodified ==
  (EndsTransaction(call.op) /\ call.result = "rejected")
    => finished[call.tx] = call.before

\* C2: on every handle, root or savepoint, a commitTransaction that
\* returned successfully leaves it marked committed, and a
\* rollbackTransaction that returned successfully leaves it marked rolled back.
C2_SuccessMarksEveryHandle ==
  (EndsTransaction(call.op) /\ call.tx # NoTx /\ call.result = "resolved")
    => finished[call.tx] =
         (IF call.op = "commitTransaction" THEN "commit" ELSE "rollback")

\* C3: a handle that is marked committed or rolled back keeps that marker
\* in every later step.
C3_TerminalStateIsFinal ==
  [][\A t \in Handles :
       finished[t] # "undefined" => finished'[t] = finished[t]]_vars

\* C4: a transaction-control call on a handle already marked committed or
\* rolled back throws at once and hands nothing to the executor.
C4_TerminalHandleIsRefused ==
  (call.op # "none" /\ call.tx # NoTx /\ call.before # "undefined")
    => (call.result = "threw" /\ SentByCall = 0)

\* C5: setAutocommit and setIsolationLevel on a savepoint handle resolve and
\* hand nothing to the executor, whatever the value.
C5_RootOnlyIsNoOpOnSavepoint ==
  (call.op \in {"setAutocommit", "setIsolationLevel"} /\ IsSavepoint(call.tx))
    => (call.result = "resolved" /\ SentByCall = 0)

C5_Witness ==
  /\ call.op = "setIsolationLevel"
  /\ IsSavepoint(call.tx)
  /\ call.value = "SERIALIZABLE"
  /\ call.before = "undefined"
  /\ call.result = "resolved"

RootLevelEnd(stmt) ==
  /\ stmt.gen \in {"commitTransactionQuery", "rollbackTransactionQuery"}
  /\ ~IsSavepoint(stmt.tx)

\* C6: commitTransaction of a savepoint hands nothing to the executor,
\* rollbackTransaction of a savepoint hands over exactly the rollback
\* statement generated for that savepoint, never a root-level COMMIT or
\* ROLLBACK, and the root's marker stays as it was.
C6_SavepointEndIsNotRootEnd ==
  (EndsTransaction(call.op) /\ IsSavepoint(call.tx)) =>
    /\ finished[parent(call.tx)] = call.beforeTarget
    /\ IF call.op = "commitTransaction"
       THEN SentByCall = 0
       ELSE /\ SentByCall = 1
            /\ LastSent.gen = "rollbackTransactionQuery"
            /\ LastSent.tx = call.tx
            /\ ~RootLevelEnd(LastSent)

C6_Witness ==
  /\ call.op = "rollbackTransaction"
  /\ IsSavepoint(call.tx)
  /\ call.result = "resolved"
  /\ SentByCall = 1
  /\ finished[parent(call.tx)] = "undefined"

\* C9: every statement startTransaction, deferConstraints and
\* rollbackTransaction send for a savepoint handle has the savepoint's root
\* (its parent) as options.transaction, never the savepoint itself.
C9_SavepointStatementsTargetRoot ==
  \A i \in 1..Len(sent) :
    IsSavepoint(sent[i].tx) =>
      /\ sent[i].target = parent(sent[i].tx)
      /\ ~IsSavepoint(sent[i].target)
      /\ sent[i].target # sent[i].tx

C9_Witness ==
  /\ Len(sent) = 2
  /\ sent[1].gen = "startTransactionQuery" /\ IsSavepoint(sent[1].tx)
  /\ sent[2].gen = "deferConstraintsQuery" /\ sent[2].tx = sent[1].tx
  /\ sent[2].status = "ok"

----------------------------------------------------------------------------
(* Claims on a transaction's lifecycle, under SpecTx *)

\* the place of a statement in the start of a transaction
Rank(gen) ==
  CASE gen = "setAutocommitQuery" -> 1
    [] gen = "setIsolationLevelQuery" -> 2
    [] gen = "startTransactionQuery" -> 3
    [] gen = "deferConstraintsQuery" -> 4
    [] OTHER -> 5

RootCommitsSent(r) ==
  Cardinality({i \in 1..Len(sent) :
                 sent[i].gen = "commitTransactionQuery" /\ sent[i].tx = r})

\* s was started inside r and rolled back, and nothing else was started
SavepointRolledBack(r, s) ==
  /\ pc[s] = "rollback"
  /\ \A u \in TxHandles \ {r, s} : pc[u] = "idle"

\* C8: after startTransaction(root), startTransaction(savepoint) and
\* rollbackTransaction(savepoint) the root is not marked and only the
\* savepoint is marked rolled back; a commitTransaction(root) after them
\* sends exactly one root commit statement, no root rollback, and marks the
\* root committed.
C8_SavepointRollbackThenRootCommit ==
  \A s \in TxHandles :
    (IsSavepoint(s) /\ SavepointRolledBack(parent(s), s)) =>
      /\ pc[parent(s)] = "active" =>
           finished = [t \in Handles |-> IF t = s THEN "rollback" ELSE "undefined"]
      /\ pc[parent(s)] = "commit" =>
           /\ finished = [t \in Handles |->
                            IF t = s THEN "rollback"
                            ELSE IF t = parent(s) THEN "commit" ELSE "undefined"]
           /\ RootCommitsSent(parent(s)) = 1
           /\ \A i \in 1..Len(sent) :
                RootLevelEnd(sent[i]) =>
                  (i = Len(sent) /\ sent[i].gen = "commitTransactionQuery")

C8_Witness ==
  /\ pc[<<1, 0>>] = "commit"
  /\ SavepointRolledBack(<<1, 0>>, <<1, 1>>)
  /\ call.op = "commitTransaction" /\ call.result = "resolved"
  /\ finished[<<1, 0>>] = "commit"

----------------------------------------------------------------------------
(* Claims on the drop operations, under SpecDrop *)

\* C10: in a multi-statement operation a statement is handed to the
\* executor only when every statement before it has succeeded, so that
\* nothing is sent after a failure.
C10_OneStatementAtATime ==
  \A i \in 1..Len(sent) : i < Len(sent) => sent[i].status = "ok"

Sent(gen) == {i \in 1..Len(sent) : sent[i].gen = gen}

\* statement i is the one generator gen made for this table and item, and
\* it succeeded
Done(i, gen, table, item) ==
  /\ sent[i].gen = gen
  /\ sent[i].table = table
  /\ sent[i].item = item
  /\ sent[i].status = "ok"

\* C11: on sqlite, once dropAllTables has turned foreign-key enforcement
\* off, it has sent the statement that turns it on again by the time it
\* finishes, also when a table drop in between failed.
C11_EnforcementRestored ==
  (/\ op.kind = "dropAllTables"
   /\ op.result # "pending"
   /\ \E i \in Sent("PRAGMA foreign_keys = OFF") : sent[i].status = "ok")
    => Sent("PRAGMA foreign_keys = ON") # {}

\* C12: on the dialects other than sqlite, when dropAllTables sends a
\* drop-table statement, the foreign keys of every listed table have been
\* asked for, and every drop-foreign-key statement for every listed table
\* has been sent before it and has succeeded.
C12_TablesDroppedAfterForeignKeys ==
  (op.kind = "dropAllTables" /\ dialect # "sqlite") =>
    \A j \in Sent("dropTableQuery") :
      /\ \A i \in Sent("getForeignKeysQuery") \cup Sent("dropForeignKeyQuery") :
           i < j /\ sent[i].status = "ok"
      /\ \A k \in 1..Len(op.tables) :
           /\ \E i \in 1..(j - 1) : Done(i, "getForeignKeysQuery", op.tables[k], 0)
           /\ \A f \in 1..op.fks[op.tables[k]] :
                \E i \in 1..(j - 1) : Done(i, "dropForeignKeyQuery", op.tables[k], f)

C12_Witness ==
  /\ op.kind = "dropAllTables" /\ dialect = "mysql"
  /\ Len(op.tables) = 2
  /\ \A t \in 1..2 : op.fks[t] = 1
  /\ Cardinality(Sent("dropForeignKeyQuery")) = 2
  /\ Cardinality(Sent("dropTableQuery")) = 2
  /\ op.result = "resolved"

\* C19: on postgres, dropTable sends the drop of an enum type only after
\* the drop-table statement of its table has succeeded, and only for a type
\* that no other table or column uses.
C19_EnumDroppedOnlyWhenUnreferenced ==
  dialect = "postgres" =>
    \A i \in Sent("pgEnumDrop") :
      sent[i].table # 0 =>
        /\ \E j \in 1..(i - 1) : Done(j, "dropTableQuery", sent[i].table, 0)
        /\ sent[i].table \notin db.shared

----------------------------------------------------------------------------
(* Claims on delete, under SpecDelete *)

\* the positions of the associations declared with onDelete cascade, in any
\* case of the letters, and useHooks true
HookCascades ==
  {a \in 1..Len(op.assocs) :
     op.assocs[a].onDelete \in {"cascade", "CASCADE"} /\ op.assocs[a].useHooks}

\* entry i of the history comes before entry j in the order of the
\* declarations: an earlier association, or the same one, its getter first
\* and its records in the order loaded
InDeclarationOrder(i, j) ==
  \/ sent[i].table < sent[j].table
  \/ sent[i].table = sent[j].table /\ sent[i].item < sent[j].item

\* C13: delete loads and destroys the records of the associations with
\* onDelete cascade and useHooks one step at a time, in the order of the
\* declarations; the delete statement is sent after every such association
\* was loaded and every record loaded was destroyed; a getter that resolves
\* to no record brings no destroy and no failure.
C13_CascadesInOrderBeforeDelete ==
  op.kind = "delete" =>
    /\ \A i \in 1..Len(sent) : i < Len(sent) => sent[i].status = "ok"
    /\ \A i \in Sent("accessors.get") \cup Sent("destroy") :
         /\ sent[i].table \in HookCascades
         /\ \A j \in Sent("accessors.get") \cup Sent("destroy") :
              i < j => InDeclarationOrder(i, j)
    /\ \A c \in 1..Len(op.loaded) :
         /\ \E i \in 1..Len(sent) : Done(i, "accessors.get", op.cascades[c], 0)
         /\ \A i \in Sent("destroy") :
              sent[i].table = op.cascades[c] =>
                op.loaded[c][1] # "none" /\ sent[i].item <= op.loaded[c][2]
    /\ \A d \in Sent("deleteQuery") :
         /\ \A a \in HookCascades :
              \E i \in 1..(d - 1) : Done(i, "accessors.get", a, 0)
         /\ \A c \in 1..Len(op.loaded) :
              \A j \in 1..op.loaded[c][2] :
                \E i \in 1..(d - 1) : Done(i, "destroy", op.cascades[c], j)
    /\ op.result = "rejected" => \E i \in 1..Len(sent) : sent[i].status = "fail"

C13_Witness ==
  /\ op.kind = "delete" /\ op.result = "resolved"
  /\ Len(op.assocs) = 2
  /\ op.assocs[1].onDelete = "CASCADE"
  /\ op.loaded = << <<"array", 2>>, <<"none", 0>> >>
  /\ Cardinality(Sent("destroy")) = 2
  /\ Sent("deleteQuery") # {}

\* C14: when a getter or a destroy of a cascading delete fails, nothing is
\* started after it: no further destroy, no getter, and never the delete
\* statement; the delete is rejected.
C14_CascadeFailureAbortsDelete ==
  op.kind = "delete" =>
    \A i \in Sent("accessors.get") \cup Sent("destroy") :
      sent[i].status = "fail" =>
        /\ i = Len(sent)
        /\ Sent("deleteQuery") = {}
        /\ op.result = "rejected"

C14_Witness ==
  /\ op.kind = "delete" /\ op.result = "rejected"
  /\ Len(op.cascades) = 2
  /\ op.loaded = << <<"array", 2>> >>
  /\ LastSent.gen = "destroy" /\ LastSent.item = 1 /\ LastSent.status = "fail"

----------------------------------------------------------------------------
(* Claims on upsert, describeTable, addConstraint and createTable, under   *)
(* SpecOps                                                                   *)

\* the sets of fields the model declares unique: by a unique key k, or by
\* an index x that is unique
UniqueSetOfKey(k) == Range(op.input.model.uniqueKeys[k].fields)

UniqueSetOfIndex(x) == Range(op.input.model.indexes[x].fields)

FullyGiven(set) == set \subseteq DOMAIN op.input.insertValues

\* the predicate that equates the fields of the set to the insert values
EquatesToInsertValues(set) == {<<f, op.input.insertValues[f]>> : f \in set}

\* the unique keys and the unique indexes, fully given, whose predicate is p
CoveredWith(p) ==
  Cardinality({k \in 1..Len(op.input.model.uniqueKeys) :
                 FullyGiven(UniqueSetOfKey(k)) /\ EquatesToInsertValues(UniqueSetOfKey(k)) = p})
  + Cardinality({x \in 1..Len(op.input.model.indexes) :
                 /\ op.input.model.indexes[x].unique
                 /\ FullyGiven(UniqueSetOfIndex(x))
                 /\ EquatesToInsertValues(UniqueSetOfIndex(x)) = p})

\* the predicates in question: those handed over after the caller's, and
\* those of the unique sets fully given (of any other there is none on
\* either side)
Predicates ==
  {op.wheres[i] : i \in ((IF op.input.where = {} THEN 0 ELSE 1) + 1)..Len(op.wheres)}
    \cup {EquatesToInsertValues(UniqueSetOfKey(k)) :
            k \in {n \in 1..Len(op.input.model.uniqueKeys) : FullyGiven(UniqueSetOfKey(n))}}
    \cup {EquatesToInsertValues(UniqueSetOfIndex(x)) :
            x \in {n \in 1..Len(op.input.model.indexes) : FullyGiven(UniqueSetOfIndex(n))}}

\* C15: the wheres upsert hands to the generator are the caller's predicate
\* when it is not empty, and after it exactly one predicate for each unique
\* key and each unique index whose fields are all among the insert values,
\* equating those fields to the insert values; nothing else.
C15_UpsertWhere ==
  op.kind = "upsert" =>
    LET own == IF op.input.where = {} THEN 0 ELSE 1 IN
    /\ own = 1 => Len(op.wheres) >= 1 /\ op.wheres[1] = op.input.where
    /\ \A p \in Predicates :
         Cardinality({i \in (own + 1)..Len(op.wheres) : op.wheres[i] = p}) = CoveredWith(p)

C15_Witness ==
  /\ op.kind = "upsert"
  /\ op.input.where # {}
  /\ DOMAIN op.input.insertValues = {"a"}
  /\ Len(op.input.model.uniqueKeys) = 1
  /\ op.input.model.uniqueKeys[1].fields = <<"a", "b">>
  /\ Len(op.input.model.indexes) = 1
  /\ op.input.model.indexes[1] = [unique |-> TRUE, plain |-> FALSE, fields |-> <<"a">>]
  /\ op.wheres = <<op.input.where, {<<"a", op.input.insertValues["a"]>>}>>

\* C16: on every dialect, an upsert that resolves resolves to a pair whose
\* first element is a boolean, and whose second is the primary key or
\* undefined.
C16_UpsertResultIsCanonical ==
  (op.kind = "upsert" /\ op.result = "resolved") =>
    /\ Len(op.output) = 2
    /\ op.output[1] \in {"true", "false"}
    /\ op.output[2] \in {"1", "undefined"}

\* C17: describeTable never resolves with an empty description: it resolves
\* with the description when the executor described at least one column,
\* and is rejected when the statement failed or described nothing.
C17_NoEmptyDescription ==
  (op.kind = "describeTable" /\ op.result # "pending") =>
    /\ Len(sent) = 1 /\ sent[1].gen = "describeTableQuery"
    /\ op.result = "resolved" => op.output # <<>> /\ op.output[1] > 0 /\ sent[1].status = "ok"
    /\ (sent[1].status = "ok" /\ op.output = <<>>) => op.result = "rejected"

C17_Witness ==
  /\ op.kind = "describeTable"
  /\ op.result = "rejected"
  /\ sent[1].status = "ok"

\* C18: on every dialect and in both forms of the arguments, addConstraint
\* without a type in its options throws; nothing is generated, delegated or
\* sent.
C18_MissingTypeThrows ==
  (/\ op.kind = "addConstraint"
   /\ \/ op.input.attributes.isArray /\ op.input.options.type = "undefined"
      \/ ~op.input.attributes.isArray /\ op.input.attributes.type = "undefined")
    => op.result = "threw" /\ sent = <<>>

C18_Witness ==
  /\ op.kind = "addConstraint"
  /\ ~op.input.attributes.isArray
  /\ op.input.attributes.type = "undefined"
  /\ op.input.options.type = "unique"
  /\ op.result = "threw"

\* C20: on postgres createTable sends the create-table statement only after
\* ensureEnums has succeeded, and never when it failed; on the other
\* dialects the create-table statement is the one thing createTable sends.
C20_CreateTableAfterEnsureEnums ==
  op.kind = "createTable" =>
    IF dialect = "postgres"
    THEN /\ Len(sent) >= 1 /\ sent[1].gen = "ensureEnums"
         /\ \A j \in Sent("createTableQuery") : j = 2 /\ sent[1].status = "ok"
         /\ sent[1].status = "fail" => Len(sent) = 1 /\ op.result = "rejected"
         /\ Len(sent) <= 2
    ELSE Len(sent) = 1 /\ sent[1].gen = "createTableQuery"

C20_Witness ==
  /\ op.kind = "createTable" /\ dialect = "postgres"
  /\ Len(sent) = 2
  /\ sent[2].gen = "createTableQuery" /\ sent[2].status = "ok"
  /\ op.result = "resolved"

\* the statements that rename: the generated one, or the sqlite delegate
Renames == Sent("renameColumnQuery") \cup Sent("SQLiteQueryInterface.renameColumn")

----------------------------------------------------------------------------
(* Claim on the generators that may return no statement, under SpecSql *)

GeneratorOf(method) ==
  CASE method = "setAutocommit" -> "setAutocommitQuery"
    [] method = "setIsolationLevel" -> "setIsolationLevelQuery"
    [] method = "deferConstraints" -> "deferConstraintsQuery"
    [] OTHER -> method

\* the last call reached its generator: it was given a handle, and
\* setAutocommit and setIsolationLevel a root, setIsolationLevel a level
GeneratorReached ==
  /\ op.kind = call.op
  /\ call.tx # NoTx
  /\ op.kind \in {"setAutocommit", "setIsolationLevel"} => parent(call.tx) = NoTx
  /\ op.kind = "setIsolationLevel" => call.value \in IsolationValues \ {"undefined"}

\* the last operation is settled as resolved, or not yet settled
Outcome ==
  IF op.kind \in GeneratedOps THEN op.result ELSE call.result

\* C22: when the generator of createTrigger, dropTrigger, renameTrigger,
\* createFunction, dropFunction, renameFunction, deferConstraints, or of
\* setAutocommit or setIsolationLevel on a root returned no statement, the
\* operation has resolved and has sent nothing; when it returned one, the
\* operation has sent that statement and nothing else.
C22_NoStatementSendsNothing ==
  (op.kind \in GeneratedOps \/ (op.kind # "none" /\ GeneratorReached)) =>
    IF op.input.sql
    THEN /\ Len(sent) = op.input.base + 1
         /\ LastSent.gen = GeneratorOf(op.kind)
    ELSE /\ Len(sent) = op.input.base
         /\ Outcome = "resolved"

C22_Witness ==
  /\ op.kind = "dropTrigger" /\ ~op.input.sql /\ op.result = "resolved"
  /\ call.op = "setAutocommit" /\ call.result = "resolved"
  /\ Len(sent) = 1 /\ LastSent.gen = "setAutocommitQuery"

----------------------------------------------------------------------------
(* Frame conditions *)

\* C23: under Spec, a step that changes a field of a handle, its finished
\* marker or its name, is a call of commitTransaction or of
\* rollbackTransaction: the other four methods leave the handle given and
\* its root as they were.
C23_OnlyCommitAndRollbackChangeHandles ==
  [][(finished' # finished \/ name' # name)
       => EndsTransaction(call'.op)]_vars

\* C24: under SpecDrop, dropAllTables sends no drop-table and no
\* drop-foreign-key statement for a table named in skip, and when it has
\* resolved every listed table not in skip has exactly one drop-table
\* statement.
C24_SkippedTablesAreUntouched ==
  op.kind = "dropAllTables" =>
    /\ \A i \in Sent("dropTableQuery") \cup Sent("dropForeignKeyQuery") :
         sent[i].table \notin op.skip
    /\ op.result = "resolved" =>
         \A k \in 1..Len(op.tables) :
           op.tables[k] \notin op.skip =>
             Cardinality({i \in Sent("dropTableQuery") : sent[i].table = op.tables[k]}) = 1

====
